---- MODULE Spec2Model ----
(***************************************************************************)
(* A model of src/hotspot/share/gc/z/zNMethod.cpp: the glue between the    *)
(* Z collector and compiled methods (nmethods).                            *)
(*                                                                         *)
(* Five specifications share the variables:                                *)
(*   SpecVisit  attach_gc_data and nmethod_oops_do applied to nmethods     *)
(*              whose relocations and slot values are drawn from bounded   *)
(*              sets (the functional behaviour of classifier and visitor); *)
(*   Spec       register_nmethod / unregister_nmethod called by the        *)
(*              sweeper and by another thread, interleaved step by step    *)
(*              with guarded iterations (oops_do_begin .. oops_do_end);    *)
(*   SpecGC     ZNMethod::unlink (with its retry loop) followed by         *)
(*              ZNMethod::purge, run by a driver over a pool of workers.   *)
(*   SpecLock   register_nmethod / unregister_nmethod called with or       *)
(*              without CodeCache_lock held;                               *)
(*   SpecConc   one nmethod registered, re-registered and unregistered     *)
(*              while a visit and an unlink pass go over it step by step.  *)
(***************************************************************************)
EXTENDS Integers, Sequences, FiniteSets, TLC

\* ------------------------------------------------------------------ bounds
NumNMethods == 2     \* nmethods in the code cache
NumAddrs    == 2     \* relocation positions in an nmethod's code stream
NumOops     == 1     \* entries of an nmethod's oops table
NumScanners == 2     \* threads that bracket a scan with oops_do_begin/end
NumWorkers  == 2     \* threads of the ZWorkers pool
MaxFailures == 2     \* unload_nmethod_caches may run out of IC stubs this often

NMethods == 1..NumNMethods
Addrs    == 1..NumAddrs
Scanners == 1..NumScanners
Workers  == 1..NumWorkers

\* ------------------------------------------------------------------ values
\* What a reference slot can hold.
Null   == "NULL"
NonOop == "non_oop_word"     \* Universe::non_oop_word(), the unresolved sentinel
Stale  == "stale"            \* a reference into a relocated region
Good   == "good"             \* a healed reference

\* Kinds of relocation found by RelocIterator.
OtherReloc  == "other"       \* iter.type() # relocInfo::oop_type
ImmOop      == "oop_imm"     \* oop_type, oop_is_immediate()
NonImmOop   == "oop_nonimm"  \* oop_type, not immediate

\* nm->gc_data<ZNMethodData>(): NULL, or a record (at address id) owning its
\* ZReentrantLock and the current ZNMethodDataOops snapshot.
NullData == [null |-> TRUE]
MkData(id, snap) == [null |-> FALSE, id |-> id, oops |-> snap]
NoOops == [null |-> TRUE]
NoLock == 0
MkOops(imms, nonimm) == [immediates |-> imms, non_immediates |-> nonimm]

\* States of a ZNMethodDataOops object.
NoSnap  == "none"            \* there is no such object
Live    == "live"            \* allocated
Pending == "pending"         \* destroy() was called; the free is deferred
Freed   == "freed"           \* its memory has been given back

\* A scanner that has loaded no snapshot.
NoRef == [st |-> NoSnap, oops |-> NoOops]

\* The closures handed to the visitor.
CountCl == "count"           \* reads the slot, leaves it as it is
HealCl  == "heal"            \* ZNMethodOopClosure

VARIABLES
  \* --- the nmethods (owned by the code cache)
  relocs,      \* relocs[nm][a]: kind of the relocation at code address a
  code,        \* code[nm][a]: value of the slot embedded at code address a
  oopsTab,     \* oopsTab[nm]: the oops table, oops_begin() .. oops_end()
  gcData,      \* gcData[nm]: the attached ZNMethodData, or NullData
  armed,       \* armed[nm]: the entry barrier is armed
  bsNMethod,   \* barrier_set()->barrier_set_nmethod() # NULL
  alive,       \* alive[nm]: nm->is_alive()
  unloading,   \* unloading[nm]: nm->is_unloading()
  depsFlushed, \* depsFlushed[nm]: flush_dependencies has run
  linked,      \* linked[nm]: the Method still points at nm
  cachesClean, \* cachesClean[nm]: unload_nmethod_caches has succeeded
  \* --- ZNMethodTable and CodeCache_lock
  table,       \* the registered nmethods
  iterating,   \* the iterations between nmethods_do_begin and nmethods_do_end
  ccLock,      \* owner of CodeCache_lock, or NoThread
  \* --- threads calling register_nmethod / unregister_nmethod
  pc, arg,
  \* --- threads scanning with oops_do
  scanPc,      \* "idle", or "scanning" between oops_do_begin and oops_do_end
  scanPos,     \* oops_do calls made in the current iteration
  scanNm,      \* the nmethod the iteration has handed to the scanner's closure
  \* --- ZNMethodDataOops objects
  oopsSt,      \* oopsSt[nm]: state of the snapshot the record of nm points at
  scanRef,     \* scanRef[s]: the snapshot the scanner has loaded, and its state
  \* --- ZNMethod::unlink / purge
  drvPc,       \* where the driver is in unlink() / purge()
  inSTS,       \* the driver is in the suspendible thread set
  failed,      \* ZNMethodUnlinkClosure::_failed of the current task
  cursor,      \* entries of the table claimed by the current task's workers
  wkPc, wkNm,  \* each worker's position and the nmethod it is processing
  failures,    \* times unload_nmethod_caches has failed so far
  nmLock,      \* nmLock[l]: the worker holding the ZReentrantLock l, or NoWorker
  \* --- history (not program state)
  visitHist,   \* visitHist[nm]: the visits of nm since it was last attached or patched
  attachCode,  \* attachCode[nm]: code[nm] as it was when nm was last attached
  skipped,     \* skipped[nm]: addresses some attach left out because they held NULL
  openAtCall,  \* iterations that were open when the sweeper called unregister
  mustEnd,     \* those of openAtCall that have not ended since
  passes,      \* tasks run by the current unlink() or purge() call
  refills,     \* refill_ic_stubs calls made by the current unlink() call
  unlinkedBy,  \* unlinkedBy[nm]: an unlink pass has flushed and unlinked nm
  flagSkipped, \* nmethods some unlink pass skipped because _failed was set
  purged       \* the nmethods the purge pass has made unloaded, in order

unitVars == <<relocs, code, oopsTab, gcData, armed, bsNMethod, alive, unloading,
              depsFlushed, linked, cachesClean>>
tableVars == <<table, iterating, ccLock>>
callVars == <<pc, arg>>
scanVars == <<scanPc, scanPos, scanNm>>
heapVars == <<oopsSt, scanRef>>
gcVars == <<drvPc, inSTS, failed, cursor, wkPc, wkNm, failures, nmLock>>
sweepHist == <<openAtCall, mustEnd>>
gcHist == <<passes, refills, unlinkedBy, flagSkipped, purged>>
histVars == <<visitHist, attachCode, skipped, sweepHist, gcHist>>
vars == <<unitVars, tableVars, callVars, scanVars, heapVars, gcVars, histVars>>

\* ------------------------------------------------- ZNMethod::attach_gc_data
\* iter.type() == relocInfo::oop_type
IsOopReloc(kind) == kind # OtherReloc

\* r->oop_is_immediate()
OopIsImmediate(kind) == kind = ImmOop

\* A classifier that also records NULL immediates.
RecordsImmediate_Always(v) == TRUE

\* r->oop_value() != NULL: only then is the address pushed
RecordsImmediate(v) == v # Null

\* The loop over the relocations, from address a on; acc is
\* (immediate_oops, non_immediate_oops) so far.
RECURSIVE FindOopRelocs(_, _, _, _)
FindOopRelocs(rel, cd, a, acc) ==
  IF a > Len(rel) THEN acc
  ELSE IF ~IsOopReloc(rel[a]) THEN FindOopRelocs(rel, cd, a + 1, acc)
  ELSE IF ~OopIsImmediate(rel[a])
    THEN FindOopRelocs(rel, cd, a + 1, [acc EXCEPT !.non_immediates = TRUE])
  ELSE IF RecordsImmediate(cd[a])
    THEN FindOopRelocs(rel, cd, a + 1, [acc EXCEPT !.immediates = Append(@, a)])
  ELSE FindOopRelocs(rel, cd, a + 1, acc)

\* ZNMethodDataOops::create(immediate_oops, non_immediate_oops)
NewOops(rel, cd) == FindOopRelocs(rel, cd, 1, MkOops(<<>>, FALSE))

\* Addresses at which a ZNMethodData can be allocated: one more than can be
\* in use at a time.
RecordIds == 1..(NumNMethods + 1)

\* ZNMethodData::create(nm) allocates: the lowest free address.
FreshRecordId(data) ==
  LET used == {data[nm].id : nm \in {m \in DOMAIN data : ~data[m].null}}
  IN  CHOOSE i \in RecordIds :
        i \notin used /\ \A j \in RecordIds : j < i => j \in used

\* An attach that creates a record every time.
GcDataOrCreate_AlwaysCreates(data, fresh) == MkData(fresh, NoOops)

\* gc_data(nm), or if that is NULL the record created and set now.
GcDataOrCreate(data, fresh) ==
  IF data.null THEN MkData(fresh, NoOops) ELSE data

\* The record after "create if NULL, then swap_oops(new_oops)".
AttachedData(data, fresh, new_oops) ==
  [GcDataOrCreate(data, fresh) EXCEPT !.oops = new_oops]

\* Immediate relocations that an attach of (rel, cd) leaves out.
NullImmediates(rel, cd) ==
  {a \in 1..Len(rel) : rel[a] = ImmOop /\ cd[a] = Null}

\* ZNMethodDataOops::destroy(oops): the object is no longer the record's
\* business. Its memory is given back at once, or, while an iteration of the
\* table is in progress, when the last iteration ends.
DestroyOops(st) ==
  IF st # Live THEN st
  ELSE IF iterating = {} THEN Freed ELSE Pending

\* An attach that destroys the snapshot it has just swapped in.
DestroyedBySwap_New(old_oops, new_oops) == new_oops

\* ZNMethodDataOops::destroy(old_oops)
DestroyedBySwap(old_oops, new_oops) == old_oops

\* data->swap_oops(new_oops), then the destroy: the record points at the new
\* object; a scanner that loaded the record's snapshot before holds the old.
SwapAndDestroy(nm) ==
  LET gone == DestroyedBySwap("old_oops", "new_oops") IN
    /\ oopsSt' = [oopsSt EXCEPT
                    ![nm] = IF gone = "new_oops" THEN DestroyOops(Live) ELSE Live]
    /\ scanRef' = [s \in Scanners |->
         IF scanNm[s] = nm /\ gone = "old_oops"
           THEN [scanRef[s] EXCEPT !.st = DestroyOops(@)] ELSE scanRef[s]]

attach_gc_data(nm) ==
  /\ gcData' = [gcData EXCEPT
                  ![nm] = AttachedData(@, FreshRecordId(gcData),
                                       NewOops(relocs[nm], code[nm]))]
  /\ attachCode' = [attachCode EXCEPT ![nm] = code[nm]]
  /\ skipped' = [skipped EXCEPT
                   ![nm] = @ \cup NullImmediates(relocs[nm], code[nm])]
  /\ visitHist' = [visitHist EXCEPT ![nm] = <<>>]
  /\ SwapAndDestroy(nm)

\* ZNMethodData::destroy(gc_data(nm)): the record goes, and its snapshot
\* with it.
DestroyData(nm) ==
  /\ oopsSt' = [oopsSt EXCEPT ![nm] = NoSnap]
  /\ scanRef' = [s \in Scanners |->
       IF scanNm[s] = nm THEN [scanRef[s] EXCEPT !.st = DestroyOops(@)]
                         ELSE scanRef[s]]

\* A detach that leaves the record in the nmethod's slot.
detach_gc_data_NoClear(nm) ==
  /\ DestroyData(nm)
  /\ UNCHANGED gcData

\* ZNMethodData::destroy(gc_data(nm)); set_gc_data(nm, NULL)
detach_gc_data(nm) ==
  /\ DestroyData(nm)
  /\ gcData' = [gcData EXCEPT ![nm] = NullData]

\* ------------------------------------------------ ZNMethod::lock_for_nmethod
\* The lock is a member of the record: it is named by the record's address.
lock_for_nmethod(nm) ==
  IF gcData[nm].null THEN NoLock ELSE gcData[nm].id

\* ------------------------------------------------- ZNMethod::disarm_nmethod
\* A disarm that leaves the guard as it is.
disarm_nmethod_Nop(nm) == UNCHANGED armed

disarm_nmethod(nm) ==
  armed' = IF bsNMethod THEN [armed EXCEPT ![nm] = FALSE] ELSE armed

\* ------------------------------------------------ ZNMethod::nmethod_oops_do
\* cl->do_oop(p): the value the closure leaves in the slot.
DoOop(cl, v) == IF cl = HealCl /\ v = Stale THEN Good ELSE v

\* A visitor that does not look for the sentinel.
IsVisited_Always(v) == TRUE

\* A visitor that calls the closure only on references that need healing.
IsVisited_OnlyStale(v) == v = Stale

\* *p != Universe::non_oop_word()
IsVisited(v) == v # NonOop

\* "Process oops table": from entry p on. st is [tab, code, calls, fix].
RECURSIVE OopsTableDo(_, _, _)
OopsTableDo(st, cl, p) ==
  IF p > Len(st.tab) THEN st
  ELSE IF IsVisited(st.tab[p])
    THEN OopsTableDo([st EXCEPT !.tab[p] = DoOop(cl, @),
                                !.calls = Append(@, <<"oops", p>>)], cl, p + 1)
  ELSE OopsTableDo(st, cl, p + 1)

\* "Process immediate oops": from entry i of the snapshot's list on.
RECURSIVE ImmediatesDo(_, _, _, _)
ImmediatesDo(st, imms, cl, i) ==
  IF i > Len(imms) THEN st
  ELSE IF IsVisited(st.code[imms[i]])
    THEN ImmediatesDo([st EXCEPT !.code[imms[i]] = DoOop(cl, @),
                                 !.calls = Append(@, <<"imm", imms[i]>>)],
                      imms, cl, i + 1)
  ELSE ImmediatesDo(st, imms, cl, i + 1)

\* "Process non-immediate oops": calls of nm->fix_oop_relocations().
FixCalls(oops) == IF oops.non_immediates THEN 1 ELSE 0

\* The whole visit of an nmethod with table tab, code cd and snapshot oops.
NMethodOopsDo(tab, cd, oops, cl) ==
  LET s0 == [tab |-> tab, code |-> cd, calls |-> <<>>, fix |-> 0]
      s1 == OopsTableDo(s0, cl, 1)
      s2 == ImmediatesDo(s1, oops.immediates, cl, 1)
  IN  [s2 EXCEPT !.fix = FixCalls(oops)]

\* The last two entries of a history.
LastTwo(h) == IF Len(h) > 2 THEN SubSeq(h, Len(h) - 1, Len(h)) ELSE h

nmethod_oops_do(nm, cl) ==
  LET r == NMethodOopsDo(oopsTab[nm], code[nm], gcData[nm].oops, cl)
  IN  /\ oopsTab' = [oopsTab EXCEPT ![nm] = r.tab]
      /\ code' = [code EXCEPT ![nm] = r.code]

\* The same visit entered in the history of nm.
RecordVisit(nm, cl) ==
  LET r == NMethodOopsDo(oopsTab[nm], code[nm], gcData[nm].oops, cl)
  IN  visitHist' = [visitHist EXCEPT ![nm] = LastTwo(Append(@,
        [cl |-> cl, calls |-> r.calls, fix |-> r.fix,
         oops |-> gcData[nm].oops,
         tab0 |-> oopsTab[nm], code0 |-> code[nm],
         tab1 |-> r.tab, code1 |-> r.code]))]

\* ------------------------------------------------------------ initial states
NoThread == "none"
Sweeper  == "sweeper"     \* Thread::current()->is_Code_cache_sweeper_thread()
Compiler == "compiler"    \* any other thread that takes CodeCache_lock
Callers  == {Sweeper, Compiler}
NoNMethod == 0
NoWorker == 0
GCIter   == 0             \* the iteration opened by an unlink or purge task

RelocKinds == {OtherReloc, ImmOop, NonImmOop}
InitialValues == {Null, NonOop, Stale}

\* An nmethod as the compiler emits it: every immediate oop relocation has a
\* slot in the code stream; the other addresses hold no reference.
Layouts ==
  {l \in [relocs : [Addrs -> RelocKinds],
           code : [Addrs -> InitialValues],
           tab : [1..NumOops -> InitialValues]] :
     \A a \in Addrs : l.relocs[a] # ImmOop => l.code[a] = Null}

\* An nmethod without references.
PlainLayout ==
  [relocs |-> [a \in Addrs |-> OtherReloc],
   code |-> [a \in Addrs |-> Null],
   tab |-> [p \in 1..NumOops |-> Null]]

\* An nmethod with a stale immediate, a non-immediate and a stale table entry.
MixedLayout ==
  [relocs |-> [a \in Addrs |-> IF a = 1 THEN ImmOop ELSE NonImmOop],
   code |-> [a \in Addrs |-> IF a = 1 THEN Stale ELSE Null],
   tab |-> [p \in 1..NumOops |-> Stale]]

InitUnits(lay) ==
  /\ relocs = [nm \in NMethods |-> lay[nm].relocs]
  /\ code = [nm \in NMethods |-> lay[nm].code]
  /\ oopsTab = [nm \in NMethods |-> lay[nm].tab]
  /\ attachCode = code
  /\ skipped = [nm \in NMethods |-> {}]
  /\ visitHist = [nm \in NMethods |-> <<>>]

InitThreads ==
  /\ iterating = {}
  /\ ccLock = NoThread
  /\ pc = [t \in Callers |-> "idle"]
  /\ arg = [t \in Callers |-> NoNMethod]
  /\ scanPc = [s \in Scanners |-> "idle"]
  /\ scanPos = [s \in Scanners |-> 0]
  /\ scanNm = [s \in Scanners |-> NoNMethod]
  /\ scanRef = [s \in Scanners |-> NoRef]
  /\ drvPc = "idle"
  /\ inSTS = TRUE
  /\ failed = FALSE
  /\ cursor = 0
  /\ wkPc = [w \in Workers |-> "idle"]
  /\ wkNm = [w \in Workers |-> NoNMethod]
  /\ failures = 0
  /\ openAtCall = {}
  /\ mustEnd = {}
  /\ passes = 0
  /\ refills = 0
  /\ unlinkedBy = [nm \in NMethods |-> FALSE]
  /\ nmLock = [l \in RecordIds |-> NoWorker]
  /\ flagSkipped = {}
  /\ purged = <<>>

\* Nothing is registered yet.
InitUnregistered ==
  /\ gcData = [nm \in NMethods |-> NullData]
  /\ oopsSt = [nm \in NMethods |-> NoSnap]
  /\ table = {}
  /\ bsNMethod \in BOOLEAN
  /\ armed = [nm \in NMethods |-> bsNMethod]
  /\ alive = [nm \in NMethods |-> TRUE]
  /\ unloading = [nm \in NMethods |-> FALSE]
  /\ depsFlushed = [nm \in NMethods |-> FALSE]
  /\ linked = [nm \in NMethods |-> TRUE]
  /\ cachesClean = [nm \in NMethods |-> FALSE]

\* ------------------------------------- classifier and visitor, one call at a time
lifeVars == <<alive, unloading, depsFlushed, linked, cachesClean>>

\* ZNMethodTable::register_nmethod / unregister_nmethod
TableRegister(nm) == table' = table \cup {nm}
TableUnregister(nm) == table' = table \ {nm}

\* register_nmethod(nm), start to end
VRegister(nm) ==
  /\ attach_gc_data(nm)
  /\ TableRegister(nm)
  /\ disarm_nmethod(nm)
  /\ UNCHANGED <<relocs, code, oopsTab, bsNMethod, lifeVars, iterating, ccLock,
                 callVars, scanVars, gcVars, sweepHist, gcHist>>

\* unregister_nmethod(nm), start to end
VUnregister(nm) ==
  /\ nm \in table
  /\ TableUnregister(nm)
  /\ detach_gc_data(nm)
  /\ UNCHANGED <<relocs, code, oopsTab, armed, bsNMethod, lifeVars, iterating,
                 ccLock, callVars, scanVars, gcVars, histVars>>

\* The code patcher resolves the NULL immediate at address a.
PatchImmediate(nm, a) ==
  /\ relocs[nm][a] = ImmOop
  /\ code[nm][a] = Null
  /\ code' = [code EXCEPT ![nm][a] = Good]
  /\ visitHist' = [visitHist EXCEPT ![nm] = <<>>]
  /\ UNCHANGED <<heapVars, relocs, oopsTab, gcData, armed, bsNMethod, lifeVars, tableVars,
                 callVars, scanVars, gcVars, attachCode, skipped, sweepHist,
                 gcHist>>

\* oops_do(cl) reaching the registered nmethod nm
VVisit(nm, cl) ==
  /\ nm \in table
  /\ nmethod_oops_do(nm, cl)
  /\ RecordVisit(nm, cl)
  /\ UNCHANGED <<heapVars, relocs, gcData, armed, bsNMethod, lifeVars, tableVars,
                 callVars, scanVars, gcVars, attachCode, skipped, sweepHist,
                 gcHist>>

\* The calls are applied to one nmethod, whose relocations, slot values and
\* oops table are drawn from Layouts; the other nmethods stay unregistered.
Subject == CHOOSE nm \in NMethods : \A m \in NMethods : nm <= m

InitVisit ==
  /\ \E l \in Layouts :
       InitUnits([nm \in NMethods |-> IF nm = Subject THEN l ELSE PlainLayout])
  /\ InitThreads
  /\ InitUnregistered
  /\ bsNMethod

NextVisit ==
  \/ VRegister(Subject)
  \/ VUnregister(Subject)
  \/ \E a \in Addrs : PatchImmediate(Subject, a)
  \/ \E cl \in {CountCl, HealCl} : VVisit(Subject, cl)

SpecVisit == InitVisit /\ [][NextVisit]_vars

\* ------------------------ register / unregister against guarded iterations
gcIdle == <<gcVars, gcHist>>

\* The caller takes CodeCache_lock and calls register_nmethod(nm).
CallRegister(t, nm) ==
  /\ t = Compiler
  /\ pc[t] = "idle"
  /\ ccLock = NoThread
  /\ ccLock' = t
  /\ pc' = [pc EXCEPT ![t] = "reg_attach"]
  /\ arg' = [arg EXCEPT ![t] = nm]
  /\ UNCHANGED <<heapVars, unitVars, table, iterating, scanVars, gcIdle, visitHist,
                 attachCode, skipped, sweepHist>>

\* A register that goes on to insert without having attached.
RegAttach_Skipped(t) ==
  /\ pc[t] = "reg_attach"
  /\ pc' = [pc EXCEPT ![t] = "reg_insert"]
  /\ UNCHANGED <<unitVars, tableVars, arg, scanVars, heapVars, gcIdle, histVars>>

\* attach_gc_data(nm)
RegAttach(t) ==
  /\ pc[t] = "reg_attach"
  /\ attach_gc_data(arg[t])
  /\ pc' = [pc EXCEPT ![t] = "reg_insert"]
  /\ UNCHANGED <<relocs, code, oopsTab, armed, bsNMethod, lifeVars, tableVars,
                 arg, scanVars, gcIdle, sweepHist>>

\* A register that goes on to disarm without having inserted.
RegInsert_Skipped(t) ==
  /\ pc[t] = "reg_insert"
  /\ pc' = [pc EXCEPT ![t] = "reg_disarm"]
  /\ UNCHANGED <<heapVars, unitVars, tableVars, arg, scanVars, gcIdle, histVars>>

\* ZNMethodTable::register_nmethod(nm)
RegInsert(t) ==
  /\ pc[t] = "reg_insert"
  /\ TableRegister(arg[t])
  /\ pc' = [pc EXCEPT ![t] = "reg_disarm"]
  /\ UNCHANGED <<heapVars, unitVars, iterating, ccLock, arg, scanVars, gcIdle,
                 visitHist, attachCode, skipped, sweepHist>>

\* disarm_nmethod(nm); register_nmethod returns and a caller that took
\* CodeCache_lock unlocks.
RegDisarm(t) ==
  /\ pc[t] = "reg_disarm"
  /\ disarm_nmethod(arg[t])
  /\ pc' = [pc EXCEPT ![t] = "idle"]
  /\ arg' = [arg EXCEPT ![t] = NoNMethod]
  /\ ccLock' = IF ccLock = t THEN NoThread ELSE ccLock
  /\ UNCHANGED <<heapVars, relocs, code, oopsTab, gcData, bsNMethod, lifeVars, table,
                 iterating, scanVars, gcIdle, visitHist, attachCode, skipped,
                 sweepHist>>

\* The caller takes CodeCache_lock and calls unregister_nmethod(nm) on a
\* registered nmethod; the assert on the lock passes.
CallUnregister(t, nm) ==
  /\ pc[t] = "idle"
  /\ ccLock = NoThread
  /\ nm \in table
  /\ ccLock' = t
  /\ pc' = [pc EXCEPT ![t] = "unreg_wait"]
  /\ arg' = [arg EXCEPT ![t] = nm]
  /\ mustEnd' = IF t = Sweeper THEN iterating ELSE mustEnd
  /\ openAtCall' = IF t = Sweeper THEN iterating ELSE openAtCall
  /\ UNCHANGED <<heapVars, unitVars, table, iterating, scanVars, gcIdle, visitHist,
                 attachCode, skipped>>

\* An unregister that never waits.
MustWait_Never(t) == FALSE

\* An unregister that waits on every thread but the sweeper.
MustWait_Inverted(t) == t # Sweeper

\* Thread::current()->is_Code_cache_sweeper_thread()
MustWait(t) == t = Sweeper

\* ZNMethodTable::wait_until_iteration_done(): while an iteration is in
\* progress, wait on CodeCache_lock (which gives the lock up).
UnregWait(t) ==
  /\ pc[t] = "unreg_wait"
  /\ IF MustWait(t) /\ iterating # {}
       THEN /\ ccLock' = NoThread
            /\ pc' = [pc EXCEPT ![t] = "unreg_blocked"]
       ELSE /\ pc' = [pc EXCEPT ![t] = "unreg_remove"]
            /\ UNCHANGED ccLock
  /\ UNCHANGED <<heapVars, unitVars, table, iterating, arg, scanVars, gcIdle, histVars>>

\* The wait returns with the lock taken again; the loop looks again.
UnregWake(t) ==
  /\ pc[t] = "unreg_blocked"
  /\ ccLock = NoThread
  /\ ccLock' = t
  /\ pc' = [pc EXCEPT ![t] = "unreg_wait"]
  /\ UNCHANGED <<heapVars, unitVars, table, iterating, arg, scanVars, gcIdle, histVars>>

\* ZNMethodTable::unregister_nmethod(nm)
UnregRemove(t) ==
  /\ pc[t] = "unreg_remove"
  /\ TableUnregister(arg[t])
  /\ pc' = [pc EXCEPT ![t] = "unreg_detach"]
  /\ UNCHANGED <<heapVars, unitVars, iterating, ccLock, arg, scanVars, gcIdle, histVars>>

\* detach_gc_data(nm); unregister_nmethod returns and a caller that took
\* CodeCache_lock unlocks.
UnregDetach(t) ==
  /\ pc[t] = "unreg_detach"
  /\ detach_gc_data(arg[t])
  /\ pc' = [pc EXCEPT ![t] = "idle"]
  /\ arg' = [arg EXCEPT ![t] = NoNMethod]
  /\ ccLock' = IF ccLock = t THEN NoThread ELSE ccLock
  /\ openAtCall' = IF t = Sweeper THEN {} ELSE openAtCall
  /\ mustEnd' = IF t = Sweeper THEN {} ELSE mustEnd
  /\ UNCHANGED <<relocs, code, oopsTab, armed, bsNMethod, lifeVars, table,
                 iterating, scanVars, gcIdle, visitHist, attachCode, skipped,
                 gcHist>>

\* ZNMethodTable::nmethods_do_begin(), under CodeCache_lock
NMethodsDoBegin(it) ==
  /\ ccLock = NoThread
  /\ iterating' = iterating \cup {it}

\* The deferred frees are carried out when no iteration is left.
AfterIteration(st, left) ==
  IF left = {} /\ st = Pending THEN Freed ELSE st

\* ZNMethodTable::nmethods_do_end(), under CodeCache_lock; notifies waiters
NMethodsDoEnd(it) ==
  /\ ccLock = NoThread
  /\ iterating' = iterating \ {it}
  /\ mustEnd' = mustEnd \ {it}
  /\ oopsSt' = [nm \in NMethods |-> AfterIteration(oopsSt[nm], iterating \ {it})]
  /\ scanRef' = [s \in Scanners |->
       [scanRef[s] EXCEPT !.st = AfterIteration(@, iterating \ {it})]]

\* oops_do_begin()
OopsDoBegin(s) ==
  /\ scanPc[s] = "idle"
  /\ NMethodsDoBegin(s)
  /\ scanPc' = [scanPc EXCEPT ![s] = "scanning"]
  /\ scanPos' = [scanPos EXCEPT ![s] = 0]
  /\ UNCHANGED <<heapVars, scanNm, unitVars, table, ccLock, callVars, gcIdle,
                 histVars>>

\* oops_do(cl): ZNMethodTable::nmethods_do applies nmethod_oops_do to every
\* registered nmethod.
OopsDo(s, cl) ==
  /\ scanPc[s] = "scanning"
  /\ scanPos[s] = 0
  /\ scanPos' = [scanPos EXCEPT ![s] = 1]
  /\ oopsTab' = [nm \in NMethods |->
       IF nm \in table
         THEN NMethodOopsDo(oopsTab[nm], code[nm], gcData[nm].oops, cl).tab
         ELSE oopsTab[nm]]
  /\ code' = [nm \in NMethods |->
       IF nm \in table
         THEN NMethodOopsDo(oopsTab[nm], code[nm], gcData[nm].oops, cl).code
         ELSE code[nm]]
  /\ UNCHANGED <<heapVars, relocs, gcData, armed, bsNMethod, lifeVars, tableVars,
                 callVars, scanPc, scanNm, gcIdle, histVars>>

\* oops_do_end()
OopsDoEnd(s) ==
  /\ scanPc[s] = "scanning"
  /\ scanPos[s] = 1
  /\ NMethodsDoEnd(s)
  /\ scanPc' = [scanPc EXCEPT ![s] = "idle"]
  /\ UNCHANGED <<unitVars, table, ccLock, callVars, scanPos, scanNm, gcIdle,
                 visitHist, attachCode, skipped, openAtCall>>

Init ==
  /\ InitUnits([nm \in NMethods |-> MixedLayout])
  /\ InitThreads
  /\ InitUnregistered

Next ==
  \/ \E nm \in NMethods : CallRegister(Compiler, nm)
  \/ \E t \in Callers : \E nm \in NMethods : CallUnregister(t, nm)
  \/ \E t \in Callers :
       \/ RegAttach(t)
       \/ RegInsert(t)
       \/ RegDisarm(t)
       \/ UnregWait(t)
       \/ UnregWake(t)
       \/ UnregRemove(t)
       \/ UnregDetach(t)
  \/ \E s \in Scanners :
       \/ OopsDoBegin(s)
       \/ OopsDo(s, CountCl)
       \/ OopsDoEnd(s)

Spec == Init /\ [][Next]_vars

\* ------------------------------- callers with and without CodeCache_lock
\* An assert that passes whoever owns the lock.
OwnedBySelf_Always(t) == TRUE

\* CodeCache_lock->owned_by_self()
OwnedBySelf(t) == ccLock = t

\* A fatal assertion failure ends the VM: no thread takes another step.
NoAbort == \A t \in Callers : pc[t] # "aborted"

\* register_nmethod(nm) is called, by a thread that has taken CodeCache_lock
\* (locked) or by one that has not. The function makes no check of its own.
LCallRegister(t, nm, locked) ==
  /\ NoAbort
  /\ pc[t] = "idle"
  /\ IF locked THEN ccLock = NoThread /\ ccLock' = t ELSE UNCHANGED ccLock
  /\ pc' = [pc EXCEPT ![t] = "reg_attach"]
  /\ arg' = [arg EXCEPT ![t] = nm]
  /\ UNCHANGED <<heapVars, unitVars, table, iterating, scanVars, gcIdle, histVars>>

\* unregister_nmethod(nm) is called on a registered nmethod, with or without
\* CodeCache_lock.
LCallUnregister(t, nm, locked) ==
  /\ NoAbort
  /\ pc[t] = "idle"
  /\ nm \in table
  /\ IF locked THEN ccLock = NoThread /\ ccLock' = t ELSE UNCHANGED ccLock
  /\ pc' = [pc EXCEPT ![t] = "unreg_assert"]
  /\ arg' = [arg EXCEPT ![t] = nm]
  /\ UNCHANGED <<heapVars, unitVars, table, iterating, scanVars, gcIdle, histVars>>

\* assert(CodeCache_lock->owned_by_self(), "Lock must be held")
UnregAssert(t) ==
  /\ NoAbort
  /\ pc[t] = "unreg_assert"
  /\ pc' = [pc EXCEPT ![t] = IF OwnedBySelf(t) THEN "unreg_wait" ELSE "aborted"]
  /\ UNCHANGED <<heapVars, unitVars, tableVars, arg, scanVars, gcIdle, histVars>>

InitLock ==
  /\ InitUnits([nm \in NMethods |-> MixedLayout])
  /\ InitThreads
  /\ InitUnregistered

NextLock ==
  \/ \E t \in Callers : \E nm \in NMethods : \E locked \in BOOLEAN :
       \/ LCallRegister(t, nm, locked)
       \/ LCallUnregister(t, nm, locked)
  \/ \E t \in Callers :
       \/ UnregAssert(t)
       \/ NoAbort /\ RegAttach(t)
       \/ NoAbort /\ RegInsert(t)
       \/ NoAbort /\ RegDisarm(t)
       \/ NoAbort /\ UnregWait(t)
       \/ NoAbort /\ UnregRemove(t)
       \/ NoAbort /\ UnregDetach(t)

SpecLock == InitLock /\ [][NextLock]_vars

\* -------------------------------------------- ZNMethod::unlink and purge
\* What the collector's tasks never change.
gcFrame == <<relocs, gcData, bsNMethod, table, ccLock, callVars, scanVars,
             visitHist, attachCode, skipped, openAtCall>>
gcHeap == <<gcFrame, heapVars>>
unlinkUnits == <<code, oopsTab, armed, alive, unloading, depsFlushed, linked,
                 cachesClean>>
taskHist == <<unlinkedBy, flagSkipped, purged>>

\* unlink(workers, unloading_occurred) is called.
CallUnlink ==
  /\ drvPc = "idle"
  /\ drvPc' = "u_task"
  /\ passes' = 0
  /\ refills' = 0
  /\ UNCHANGED <<gcHeap, unlinkUnits, iterating, mustEnd, inSTS, failed,
                 cursor, wkPc, wkNm, failures, nmLock, taskHist>>

\* ZNMethodUnlinkClosure's constructor: _failed(false)
FreshFailed == FALSE

\* ZNMethodUnlinkTask's constructor, then workers->run_concurrent(&task)
\* starts the workers on the table's iteration.
UnlinkTaskBegin ==
  /\ drvPc = "u_task"
  /\ NMethodsDoBegin(GCIter)
  /\ failed' = FreshFailed
  /\ cursor' = 0
  /\ wkPc' = [w \in Workers |-> "claim"]
  /\ passes' = passes + 1
  /\ drvPc' = "u_run"
  /\ UNCHANGED <<gcHeap, unlinkUnits, mustEnd, inSTS, wkNm, failures, nmLock,
                 refills, taskHist>>

\* ZNMethodTable::nmethods_do: a worker claims the next entry of the table,
\* or finds none left and finishes its work().
WkClaim(w) ==
  /\ drvPc \in {"u_run", "p_run"}
  /\ wkPc[w] = "claim"
  /\ IF cursor < NumNMethods
       THEN /\ cursor' = cursor + 1
            /\ IF cursor + 1 \in table
                 THEN /\ wkNm' = [wkNm EXCEPT ![w] = cursor + 1]
                      /\ wkPc' = [wkPc EXCEPT ![w] = "enter"]
                 ELSE UNCHANGED <<wkNm, wkPc>>
       ELSE /\ wkPc' = [wkPc EXCEPT ![w] = "done"]
            /\ UNCHANGED <<cursor, wkNm>>
  /\ UNCHANGED <<gcHeap, unlinkUnits, iterating, mustEnd, drvPc, inSTS,
                 failed, failures, nmLock, gcHist>>

\* A locker that does not lock.
Locked_Nop(w, l) == nmLock

\* ZLocker<ZReentrantLock> locker(lock): the worker owns the lock.
Locked(w, l) == [nmLock EXCEPT ![l] = w]

\* ZNMethodUnlinkClosure::do_nmethod, up to the ZLocker: return if the pass
\* has failed or the nmethod is not alive, else take the nmethod's lock. What
\* ZLocker does with the NULL of an nmethod without a record is not in this
\* file: the worker goes no further.
UnlinkEnter(w) ==
  /\ drvPc = "u_run"
  /\ wkPc[w] = "enter"
  /\ IF failed \/ ~alive[wkNm[w]]
       THEN /\ wkPc' = [wkPc EXCEPT ![w] = "claim"]
            /\ wkNm' = [wkNm EXCEPT ![w] = NoNMethod]
            /\ flagSkipped' = IF failed THEN flagSkipped \cup {wkNm[w]}
                                         ELSE flagSkipped
            /\ UNCHANGED nmLock
       ELSE IF lock_for_nmethod(wkNm[w]) = NoLock
         THEN /\ wkPc' = [wkPc EXCEPT ![w] = "null_lock"]
              /\ UNCHANGED <<wkNm, flagSkipped, nmLock>>
         ELSE /\ nmLock[lock_for_nmethod(wkNm[w])] = NoWorker
              /\ nmLock' = Locked(w, lock_for_nmethod(wkNm[w]))
              /\ wkPc' = [wkPc EXCEPT ![w] = "body"]
              /\ UNCHANGED <<wkNm, flagSkipped>>
  /\ UNCHANGED <<gcHeap, unlinkUnits, iterating, mustEnd, drvPc, inSTS,
                 failed, cursor, failures, passes, refills, unlinkedBy, purged>>

\* ~ZLocker: the worker gives up the lock it took.
Unlocked(w) ==
  [l \in RecordIds |-> IF nmLock[l] = w THEN NoWorker ELSE nmLock[l]]

\* An unlinking that never unlinks from the Method.
UnloadingOrder_FlushOnly == <<"flush_dependencies", "flush_dependencies">>

\* An unlinking that unlinks from the Method before it flushes.
UnloadingOrder_Swapped == <<"unlink_from_method", "flush_dependencies">>

\* What do_nmethod does to an unloading nmethod, in order.
UnloadingOrder == <<"flush_dependencies", "unlink_from_method">>

\* nm->flush_dependencies(false) or nm->unlink_from_method(false)
UnloadingOp(op, nm) ==
  IF op = "flush_dependencies"
    THEN /\ depsFlushed' = [depsFlushed EXCEPT ![nm] = TRUE]
         /\ UNCHANGED linked
    ELSE /\ linked' = [linked EXCEPT ![nm] = FALSE]
         /\ UNCHANGED depsFlushed

\* do_nmethod under the lock, nm->is_unloading(): the first of the two calls.
UnlinkUnloadingFirst(w) ==
  /\ drvPc = "u_run"
  /\ wkPc[w] = "body"
  /\ unloading[wkNm[w]]
  /\ UnloadingOp(UnloadingOrder[1], wkNm[w])
  /\ wkPc' = [wkPc EXCEPT ![w] = "body_unloading"]
  /\ UNCHANGED <<gcHeap, code, oopsTab, armed, cachesClean, alive, unloading,
                 iterating, mustEnd, drvPc, inSTS, failed, cursor, wkNm,
                 failures, nmLock, gcHist>>

\* The second call, and the return, which unlocks.
UnlinkUnloadingSecond(w) ==
  /\ drvPc = "u_run"
  /\ wkPc[w] = "body_unloading"
  /\ UnloadingOp(UnloadingOrder[2], wkNm[w])
  /\ unlinkedBy' = [unlinkedBy EXCEPT ![wkNm[w]] = TRUE]
  /\ nmLock' = Unlocked(w)
  /\ wkPc' = [wkPc EXCEPT ![w] = "claim"]
  /\ wkNm' = [wkNm EXCEPT ![w] = NoNMethod]
  /\ UNCHANGED <<gcHeap, code, oopsTab, armed, cachesClean, alive, unloading,
                 iterating, mustEnd, drvPc, inSTS, failed, cursor, failures,
                 passes, refills, flagSkipped, purged>>

\* A closure that stores the outcome of the last cache cleaning in _failed.
FailedAfter_Overwrites(ok, f) == ~ok

\* if (!nm->unload_nmethod_caches(...)) { set_failed(); }
FailedAfter(ok, f) == IF ok THEN f ELSE TRUE

\* "Heal oops and disarm", then nm->unload_nmethod_caches, which succeeds
\* (ok) or runs out of transitional IC stubs; on failure set_failed().
HealAndClean(nm, ok) ==
  /\ nmethod_oops_do(nm, HealCl)
  /\ disarm_nmethod(nm)
  /\ cachesClean' = [cachesClean EXCEPT ![nm] = ok]
  /\ failed' = FailedAfter(ok, failed)
  /\ failures' = IF ok THEN failures ELSE failures + 1

\* do_nmethod under the lock for an nmethod that is not unloading, and the
\* return, which unlocks.
UnlinkBody(w, ok) ==
  /\ drvPc = "u_run"
  /\ wkPc[w] = "body"
  /\ ~unloading[wkNm[w]]
  /\ ~gcData[wkNm[w]].null
  /\ ok \/ failures < MaxFailures
  /\ HealAndClean(wkNm[w], ok)
  /\ nmLock' = Unlocked(w)
  /\ wkPc' = [wkPc EXCEPT ![w] = "claim"]
  /\ wkNm' = [wkNm EXCEPT ![w] = NoNMethod]
  /\ UNCHANGED <<gcHeap, alive, unloading, depsFlushed, linked, iterating,
                 mustEnd, drvPc, inSTS, cursor, gcHist>>

\* A task that always reports success.
TaskSuccess_Always == TRUE

\* ZNMethodUnlinkTask::success()
TaskSuccess == ~failed

\* run_concurrent returns when every worker has finished; unlink returns if
\* the task succeeded; either way the task's destructor ends the iteration.
UnlinkTaskEnd ==
  /\ drvPc = "u_run"
  /\ \A w \in Workers : wkPc[w] = "done"
  /\ NMethodsDoEnd(GCIter)
  /\ wkPc' = [w \in Workers |-> "idle"]
  /\ drvPc' = IF TaskSuccess THEN "unlinked" ELSE "u_leave"
  /\ UNCHANGED <<gcFrame, unlinkUnits, inSTS, failed, cursor, wkNm, failures,
                 nmLock, gcHist>>

\* A retry that stays in the suspendible thread set.
UnlinkLeaveSTS_Stays ==
  /\ drvPc = "u_leave"
  /\ drvPc' = "u_refill"
  /\ UNCHANGED <<gcHeap, unlinkUnits, iterating, mustEnd, inSTS, failed,
                 cursor, wkPc, wkNm, failures, nmLock, gcHist>>

\* SuspendibleThreadSetLeaver sts
UnlinkLeaveSTS ==
  /\ drvPc = "u_leave"
  /\ inSTS' = FALSE
  /\ drvPc' = "u_refill"
  /\ UNCHANGED <<gcHeap, unlinkUnits, iterating, mustEnd, failed, cursor,
                 wkPc, wkNm, failures, nmLock, gcHist>>

\* A retry that does not refill the stub pool.
UnlinkRefill_Skipped ==
  /\ drvPc = "u_refill"
  /\ drvPc' = "u_join"
  /\ UNCHANGED <<gcHeap, unlinkUnits, iterating, mustEnd, inSTS, failed,
                 cursor, wkPc, wkNm, failures, nmLock, gcHist>>

\* InlineCacheBuffer::refill_ic_stubs()
UnlinkRefill ==
  /\ drvPc = "u_refill"
  /\ refills' = refills + 1
  /\ drvPc' = "u_join"
  /\ UNCHANGED <<gcHeap, unlinkUnits, iterating, mustEnd, inSTS, failed,
                 cursor, wkPc, wkNm, failures, nmLock, passes, taskHist>>

\* The leaver's destructor rejoins the set; the loop starts over.
UnlinkJoinSTS ==
  /\ drvPc = "u_join"
  /\ inSTS' = TRUE
  /\ drvPc' = "u_task"
  /\ UNCHANGED <<gcHeap, unlinkUnits, iterating, mustEnd, failed, cursor,
                 wkPc, wkNm, failures, nmLock, gcHist>>

\* After the handshake that follows unlink, purge(workers) is called.
CallPurge ==
  /\ drvPc = "unlinked"
  /\ drvPc' = "p_task"
  /\ passes' = 0
  /\ UNCHANGED <<gcHeap, unlinkUnits, iterating, mustEnd, inSTS, failed,
                 cursor, wkPc, wkNm, failures, nmLock, refills, taskHist>>

\* ZNMethodPurgeTask's constructor, then workers->run_concurrent(&task)
PurgeTaskBegin ==
  /\ drvPc = "p_task"
  /\ NMethodsDoBegin(GCIter)
  /\ cursor' = 0
  /\ wkPc' = [w \in Workers |-> "claim"]
  /\ drvPc' = "p_run"
  /\ passes' = passes + 1
  /\ UNCHANGED <<gcHeap, unlinkUnits, mustEnd, inSTS, failed, wkNm, failures,
                 nmLock, refills, taskHist>>

\* A purge that finalizes whatever is alive.
PurgeFinalizes_IgnoresUnloading(nm) == alive[nm]

\* nm->is_alive() && nm->is_unloading()
PurgeFinalizes(nm) == alive[nm] /\ unloading[nm]

\* ZNMethodPurgeClosure::do_nmethod; make_unloaded marks the nmethod unloaded.
PurgeDo(w) ==
  /\ drvPc = "p_run"
  /\ wkPc[w] = "enter"
  /\ IF PurgeFinalizes(wkNm[w])
       THEN /\ alive' = [alive EXCEPT ![wkNm[w]] = FALSE]
            /\ purged' = Append(purged, wkNm[w])
       ELSE UNCHANGED <<alive, purged>>
  /\ wkPc' = [wkPc EXCEPT ![w] = "claim"]
  /\ wkNm' = [wkNm EXCEPT ![w] = NoNMethod]
  /\ UNCHANGED <<gcHeap, code, oopsTab, armed, unloading, depsFlushed, linked,
                 cachesClean, iterating, mustEnd, drvPc, inSTS, failed, cursor,
                 failures, nmLock, passes, refills, unlinkedBy, flagSkipped>>

\* run_concurrent returns; the task's destructor ends the iteration.
PurgeTaskEnd ==
  /\ drvPc = "p_run"
  /\ \A w \in Workers : wkPc[w] = "done"
  /\ NMethodsDoEnd(GCIter)
  /\ wkPc' = [w \in Workers |-> "idle"]
  /\ drvPc' = "purged"
  /\ UNCHANGED <<gcFrame, unlinkUnits, inSTS, failed, cursor, wkNm, failures,
                 nmLock, gcHist>>

\* Every nmethod is registered; the collector has classified each as
\* unloading or not, and some may have been unloaded by an earlier cycle.
\* unlink and purge run only with class unloading enabled, and then the
\* barrier set has nmethod entry barriers, which the cycle has armed.
InitGC ==
  /\ InitUnits([nm \in NMethods |-> MixedLayout])
  /\ InitThreads
  /\ gcData = [nm \in NMethods |->
                 MkData(nm, NewOops(MixedLayout.relocs, MixedLayout.code))]
  /\ oopsSt = [nm \in NMethods |-> Live]
  /\ table = NMethods
  /\ bsNMethod = TRUE
  /\ armed = [nm \in NMethods |-> TRUE]
  /\ alive \in [NMethods -> BOOLEAN]
  /\ unloading \in [NMethods -> BOOLEAN]
  /\ depsFlushed = [nm \in NMethods |-> ~alive[nm]]
  /\ linked = alive
  /\ cachesClean = [nm \in NMethods |-> FALSE]

NextGC ==
  \/ CallUnlink
  \/ UnlinkTaskBegin
  \/ \E w \in Workers :
       \/ WkClaim(w)
       \/ UnlinkEnter(w)
       \/ UnlinkUnloadingFirst(w)
       \/ UnlinkUnloadingSecond(w)
       \/ \E ok \in BOOLEAN : UnlinkBody(w, ok)
       \/ PurgeDo(w)
  \/ UnlinkTaskEnd
  \/ UnlinkLeaveSTS
  \/ UnlinkRefill
  \/ UnlinkJoinSTS
  \/ CallPurge
  \/ PurgeTaskBegin
  \/ PurgeTaskEnd

SpecGC == InitGC /\ [][NextGC]_vars

\* The driver and the workers are running threads: a step that can be taken
\* is taken.
FairSpecGC == SpecGC /\ WF_vars(NextGC)

\* ------------------- one nmethod: calls, a scan step by step, and unlink
\* The scanner whose visit is followed step by step.
Visitor == CHOOSE s \in Scanners : \A r \in Scanners : s <= r

\* oops_do(cl): ZNMethodTable::nmethods_do hands the entries of the table to
\* the closure. Here at most Subject is registered: there is one entry or none.
FHand(s) ==
  /\ scanPc[s] = "scanning"
  /\ scanPos[s] = 0
  /\ scanPos' = [scanPos EXCEPT ![s] = 1]
  /\ IF Subject \in table
       THEN /\ scanNm' = [scanNm EXCEPT ![s] = Subject]
            /\ scanPc' = [scanPc EXCEPT ![s] = "v_table"]
       ELSE UNCHANGED <<scanNm, scanPc>>
  /\ UNCHANGED <<unitVars, tableVars, callVars, heapVars, gcIdle, histVars>>

\* nmethod_oops_do: "Process oops table"
FTable(s, cl) ==
  /\ scanPc[s] = "v_table"
  /\ oopsTab' = [oopsTab EXCEPT ![scanNm[s]] =
       OopsTableDo([tab |-> @, code |-> code[scanNm[s]], calls |-> <<>>,
                    fix |-> 0], cl, 1).tab]
  /\ scanPc' = [scanPc EXCEPT ![s] = "v_load"]
  /\ UNCHANGED <<relocs, code, gcData, armed, bsNMethod, lifeVars, tableVars,
                 callVars, scanPos, scanNm, heapVars, gcIdle, histVars>>

\* oops = gc_data(nm)->oops(). With no record attached this reads through
\* NULL: whatever the build does then, the visit is over.
FLoad(s) ==
  /\ scanPc[s] = "v_load"
  /\ IF gcData[scanNm[s]].null
       THEN /\ scanPc' = [scanPc EXCEPT ![s] = "null_deref"]
            /\ UNCHANGED scanRef
       ELSE /\ scanPc' = [scanPc EXCEPT ![s] = "v_imm"]
            /\ scanRef' = [scanRef EXCEPT ![s] =
                 [st |-> oopsSt[scanNm[s]], oops |-> gcData[scanNm[s]].oops]]
  /\ UNCHANGED <<unitVars, tableVars, callVars, scanPos, scanNm, oopsSt, gcIdle,
                 histVars>>

\* "Process immediate oops" and "Process non-immediate oops", reading the
\* snapshot that was loaded. Reading one whose memory was given back ends
\* the visit, whatever the build does then.
FImm(s, cl) ==
  /\ scanPc[s] = "v_imm"
  /\ IF scanRef[s].st = Freed
       THEN /\ scanPc' = [scanPc EXCEPT ![s] = "freed_read"]
            /\ UNCHANGED <<code, scanNm, scanRef>>
       ELSE /\ code' = [code EXCEPT ![scanNm[s]] =
                 ImmediatesDo([tab |-> oopsTab[scanNm[s]], code |-> @,
                               calls |-> <<>>, fix |-> 0],
                              scanRef[s].oops.immediates, cl, 1).code]
            /\ scanPc' = [scanPc EXCEPT ![s] = "scanning"]
            /\ scanNm' = [scanNm EXCEPT ![s] = NoNMethod]
            /\ scanRef' = [scanRef EXCEPT ![s] = NoRef]
  /\ UNCHANGED <<relocs, oopsTab, gcData, armed, bsNMethod, lifeVars, tableVars,
                 callVars, scanPos, oopsSt, gcIdle, histVars>>

\* do_nmethod under the lock for an nmethod that is not unloading and has
\* lost its record: nmethod_oops_do reads through NULL.
UnlinkNullDeref(w) ==
  /\ drvPc = "u_run"
  /\ wkPc[w] = "body"
  /\ ~unloading[wkNm[w]]
  /\ gcData[wkNm[w]].null
  /\ wkPc' = [wkPc EXCEPT ![w] = "null_deref"]
  /\ UNCHANGED <<gcHeap, unlinkUnits, iterating, mustEnd, drvPc, inSTS, failed,
                 cursor, wkNm, failures, nmLock, gcHist>>

\* Subject is emitted alive, classified unloading or not, and not yet
\* registered; the barrier set has nmethod entry barriers.
InitConc ==
  /\ InitUnits([nm \in NMethods |-> IF nm = Subject THEN MixedLayout
                                                     ELSE PlainLayout])
  /\ InitThreads
  /\ gcData = [nm \in NMethods |-> NullData]
  /\ oopsSt = [nm \in NMethods |-> NoSnap]
  /\ table = {}
  /\ bsNMethod = TRUE
  /\ armed = [nm \in NMethods |-> TRUE]
  /\ alive = [nm \in NMethods |-> TRUE]
  /\ \E u \in BOOLEAN : unloading = [nm \in NMethods |-> nm = Subject /\ u]
  /\ depsFlushed = [nm \in NMethods |-> FALSE]
  /\ linked = [nm \in NMethods |-> TRUE]
  /\ cachesClean = [nm \in NMethods |-> FALSE]

NextConc ==
  \/ CallRegister(Compiler, Subject)
  \/ \E t \in Callers : CallUnregister(t, Subject)
  \/ \E t \in Callers :
       \/ RegAttach(t)
       \/ RegInsert(t)
       \/ RegDisarm(t)
       \/ UnregWait(t)
       \/ UnregWake(t)
       \/ UnregRemove(t)
       \/ UnregDetach(t)
  \/ OopsDoBegin(Visitor)
  \/ FHand(Visitor)
  \/ FTable(Visitor, CountCl)
  \/ FLoad(Visitor)
  \/ FImm(Visitor, CountCl)
  \/ OopsDoEnd(Visitor)
  \/ CallUnlink
  \/ UnlinkTaskBegin
  \/ \E w \in Workers :
       \/ WkClaim(w)
       \/ UnlinkEnter(w)
       \/ UnlinkUnloadingFirst(w)
       \/ UnlinkUnloadingSecond(w)
       \/ UnlinkBody(w, TRUE)
       \/ UnlinkNullDeref(w)
  \/ UnlinkTaskEnd

SpecConc == InitConc /\ [][NextConc]_vars

\* ---------------------------------------------------------------- properties
Range(q) == {q[i] : i \in 1..Len(q)}
Count(q, x) == Cardinality({i \in 1..Len(q) : q[i] = x})

\* C1: when the sweeper calls unregister while guarded iterations are open,
\* it removes the nmethod from the table and destroys its record only after
\* every one of those iterations has ended.
C1_SweeperRemovesAfterOpenScans ==
  pc[Sweeper] \in {"unreg_remove", "unreg_detach"} => mustEnd = {}

\* C1 happens: the sweeper called unregister while every scanner had an
\* iteration open, and has now removed the nmethod.
C1_Witness ==
  /\ pc[Sweeper] = "unreg_detach"
  /\ openAtCall = Scanners
  /\ arg[Sweeper] \notin table

\* C2 as claimed: whoever the caller, no unregister is past its removal while
\* an iteration is open.
C2_NoCallerRemovesDuringScan ==
  \A t \in Callers : pc[t] = "unreg_detach" => iterating = {}

\* C2 as amended: once the sweeper has finished waiting, and until its
\* unregister returns, no iteration is open.
C2_SweeperExcludesScans ==
  pc[Sweeper] \in {"unreg_remove", "unreg_detach"} => iterating = {}

\* C2 happens: the sweeper had to wait for an iteration and is now between
\* the removal and the destruction of the record.
C2_Witness ==
  /\ pc[Sweeper] = "unreg_detach"
  /\ openAtCall # {}
  /\ ~gcData[arg[Sweeper]].null
  /\ \A s \in Scanners : scanPc[s] = "idle"

\* C3: for an nmethod on which no register or unregister call is under way,
\* a record is attached iff the nmethod is in the table.
C3_RecordIffRegistered ==
  \A nm \in NMethods :
    (\A t \in Callers : arg[t] # nm) => (~gcData[nm].null <=> nm \in table)

\* C3 happens: with no call under way, one nmethod is registered and another
\* has been registered (its guard was disarmed) and unregistered since.
C3_Witness ==
  /\ \A t \in Callers : pc[t] = "idle"
  /\ \E nm \in NMethods : nm \in table /\ ~gcData[nm].null
  /\ \E nm \in NMethods :
       nm \notin table /\ gcData[nm].null /\ bsNMethod /\ ~armed[nm]

\* C4: every nmethod the purge pass has made unloaded had its dependencies
\* flushed and was unlinked from its Method by an unlink pass before.
C4_PurgedWereUnlinked ==
  \A nm \in Range(purged) : depsFlushed[nm] /\ ~linked[nm] /\ unlinkedBy[nm]

\* C4 happens: purge has finalized an nmethod that a failed unlink pass had
\* skipped because the failure flag was set.
C4_Witness ==
  \E nm \in Range(purged) : nm \in flagSkipped

\* C5: unlink returns only after a pass that ended with the flag clear, and
\* then passes = refills + 1; it retries only after a pass that failed; each
\* failed pass is followed by one refill and one new pass, which starts with
\* the flag clear and hands every entry of the table to the closure.
C5_RetryLoopShape ==
  /\ drvPc = "unlinked" => ~failed /\ passes = refills + 1
  /\ drvPc \in {"u_leave", "u_refill", "u_join"} => failed
  /\ drvPc \in {"u_run", "u_leave", "u_refill"} => passes = refills + 1
  /\ drvPc \in {"u_join", "u_task"} => passes = refills
  /\ (drvPc = "u_run" /\ cursor = 0) => ~failed
  /\ drvPc \in {"u_leave", "u_refill", "u_join", "unlinked"} =>
       cursor = NumNMethods

\* C5 happens: unlink has returned after two failed passes.
C5_Witness ==
  /\ drvPc = "unlinked"
  /\ refills >= 2
  /\ passes = 3

\* C6: when unlink returns, every registered nmethod that is alive and not
\* unloading has no stale reference left in its oops table or in the
\* immediates of its snapshot, has its guard disarmed and its caches cleaned.
C6_LiveUnitsProcessedAtReturn ==
  drvPc = "unlinked" =>
    \A nm \in table : (alive[nm] /\ ~unloading[nm]) =>
      /\ \A p \in 1..NumOops : oopsTab[nm][p] # Stale
      /\ \A a \in Range(gcData[nm].oops.immediates) : code[nm][a] # Stale
      /\ ~armed[nm]
      /\ cachesClean[nm]

\* C6 happens: unlink has returned, and a live nmethod that guards its entry
\* had been skipped by a failed pass.
C6_Witness ==
  /\ drvPc = "unlinked"
  /\ bsNMethod
  /\ \E nm \in flagSkipped : alive[nm] /\ ~unloading[nm] /\ nm \in table

\* C7: with the driver and the workers scheduled fairly and stub exhaustion
\* happening at most MaxFailures times, an unlink that has been called
\* returns, and it never returns while the last pass is marked failed.
C7_UnlinkReturns ==
  /\ (drvPc = "u_task") ~> (drvPc = "unlinked")
  /\ [](drvPc = "unlinked" => ~failed)

\* C7 happens: unlink has returned after stub exhaustion happened as often
\* as it can.
C7_Witness ==
  /\ drvPc = "unlinked"
  /\ failures = MaxFailures

\* C8: the snapshot installed by a (re-)registration is determined by the
\* relocations as they were at that attach: its immediate list holds, once
\* each, exactly the addresses of the immediate oop relocations whose value
\* was not NULL; its non-immediate flag is set iff some oop relocation is not
\* immediate; other relocations contribute nothing.
C8_SnapshotFromRelocs ==
  \A nm \in NMethods : ~gcData[nm].null =>
    LET o == gcData[nm].oops
        want == {a \in Addrs : relocs[nm][a] = ImmOop /\ attachCode[nm][a] # Null}
    IN  /\ Range(o.immediates) = want
        /\ Len(o.immediates) = Cardinality(want)
        /\ o.non_immediates <=> (\E a \in Addrs : relocs[nm][a] = NonImmOop)

\* C8 happens: an address an earlier attach left out as NULL has been patched
\* and the re-registration's snapshot holds it.
C8_Witness ==
  \E nm \in NMethods : \E a \in Addrs :
    /\ ~gcData[nm].null
    /\ a \in skipped[nm]
    /\ a \in Range(gcData[nm].oops.immediates)

\* C9: one visit calls the closure exactly once on each oops-table entry and
\* on each immediate of the snapshot whose value at that time is not the
\* sentinel, on nothing else, and calls fix_oop_relocations once iff the
\* snapshot's non-immediate flag is set.
C9_VisitCallsOncePerLiveSlot ==
  \A nm \in NMethods : \A k \in 1..Len(visitHist[nm]) :
    LET h == visitHist[nm][k] IN
      /\ \A p \in 1..NumOops :
           Count(h.calls, <<"oops", p>>) = IF h.tab0[p] # NonOop THEN 1 ELSE 0
      /\ \A a \in Addrs :
           Count(h.calls, <<"imm", a>>) =
             IF a \in Range(h.oops.immediates) /\ h.code0[a] # NonOop THEN 1 ELSE 0
      /\ Range(h.calls) \subseteq
           ({<<"oops", p>> : p \in 1..NumOops} \cup {<<"imm", a>> : a \in Addrs})
      /\ h.oops.non_immediates => h.fix = 1
      /\ ~h.oops.non_immediates => h.fix = 0

\* C9 happens: a visit that met the sentinel, called the closure on another
\* slot and ran fix_oop_relocations.
C9_Witness ==
  \E nm \in NMethods : \E k \in 1..Len(visitHist[nm]) :
    LET h == visitHist[nm][k] IN
      /\ \/ \E p \in 1..NumOops : h.tab0[p] = NonOop
         \/ \E a \in Range(h.oops.immediates) : h.code0[a] = NonOop
      /\ Len(h.calls) >= 1
      /\ h.fix = 1

\* C10: two visits in a row of an nmethod that was neither re-registered nor
\* patched in between call the closure on the same slots and find the same
\* snapshot, which is still the attached one; and if the first visit healed,
\* the second leaves every slot as the first left it.
C10_VisitIdempotent ==
  \A nm \in NMethods : Len(visitHist[nm]) = 2 =>
    LET h1 == visitHist[nm][1]
        h2 == visitHist[nm][2]
    IN  (h2.tab0 = h1.tab1 /\ h2.code0 = h1.code1) =>
          /\ Range(h2.calls) = Range(h1.calls)
          /\ h2.oops = h1.oops
          /\ ~gcData[nm].null => gcData[nm].oops = h2.oops
          /\ h1.cl = HealCl => (h2.tab1 = h1.tab1 /\ h2.code1 = h1.code1)

\* C10 happens: the first of two visits healed a stale slot.
C10_Witness ==
  \E nm \in NMethods :
    /\ Len(visitHist[nm]) = 2
    /\ visitHist[nm][1].cl = HealCl
    /\ visitHist[nm][2].cl = HealCl
    /\ visitHist[nm][1].code1 # visitHist[nm][1].code0
    /\ visitHist[nm][1].tab1 # visitHist[nm][1].tab0
    /\ visitHist[nm][2].tab0 = visitHist[nm][1].tab1
    /\ visitHist[nm][2].code0 = visitHist[nm][1].code1

\* The program counters of a register call and of an unregister call.
RegPcs == {"reg_attach", "reg_insert", "reg_disarm"}
UnregPcs == {"unreg_assert", "unreg_wait", "unreg_remove", "unreg_detach"}

\* C11 as claimed: whichever entry point a thread is in without owning
\* CodeCache_lock, its next step is the fatal abort, and that step leaves the
\* table, the records with their snapshots and the guards as they are.
C11_UnlockedCallAborts ==
  [][\A t \in Callers :
       (pc[t] \in RegPcs \cup UnregPcs /\ ccLock # t /\ pc'[t] # pc[t]) =>
         (pc'[t] = "aborted" /\ UNCHANGED <<table, gcData, armed>>)]_vars

\* C11 as amended: a thread in unregister_nmethod that does not own
\* CodeCache_lock aborts as its next step, leaving the table, the records
\* with their snapshots and the guards as they are.
C11_UnlockedUnregisterAborts ==
  [][\A t \in Callers :
       (pc[t] \in UnregPcs /\ ccLock # t /\ pc'[t] # pc[t]) =>
         (pc'[t] = "aborted" /\ UNCHANGED <<table, gcData, armed>>)]_vars

\* C11 happens: an unregister called without the lock has aborted, and the
\* nmethod is still registered, with its record and its guard disarmed.
C11_Witness ==
  \E t \in Callers :
    /\ pc[t] = "aborted"
    /\ arg[t] \in table
    /\ ~gcData[arg[t]].null
    /\ bsNMethod /\ ~armed[arg[t]]

\* C12: lock_for_nmethod returns NULL for an nmethod exactly when, no call
\* on it being under way, it is not registered; registered nmethods have
\* locks of their own; and while an nmethod stays registered, through any
\* re-registration, its record and lock stay the same object.
C12_LockOfTheOneRecord ==
  /\ [](\A nm \in NMethods : (\A t \in Callers : arg[t] # nm) =>
          (lock_for_nmethod(nm) = NoLock <=> nm \notin table))
  /\ [](\A nm, m \in table : nm # m => lock_for_nmethod(nm) # lock_for_nmethod(m))
  /\ [][\A nm \in NMethods : (nm \in table /\ nm \in table') =>
          (~gcData'[nm].null /\ ~gcData[nm].null /\ gcData'[nm].id = gcData[nm].id)]_vars

\* C12 happens: with every nmethod registered, a re-registration has just
\* attached a snapshot to the record of one of them.
C12_Witness ==
  /\ table = NMethods
  /\ pc[Compiler] = "reg_insert"
  /\ arg[Compiler] \in table
  /\ lock_for_nmethod(arg[Compiler]) # NoLock

\* C13: a step of register_nmethod that changes the guard is taken with the
\* nmethod in the table and its snapshot attached; the call inserts only
\* after it has attached; and when the call returns the nmethod is in the
\* table, its record holds the snapshot built by this call from the
\* relocations, and its guard is disarmed.
C13_AttachInsertDisarm ==
  /\ [](\A t \in Callers : pc[t] \in {"reg_insert", "reg_disarm"} =>
          /\ ~gcData[arg[t]].null
          /\ gcData[arg[t]].oops = NewOops(relocs[arg[t]], attachCode[arg[t]]))
  /\ [](\A t \in Callers : pc[t] = "reg_disarm" => arg[t] \in table)
  /\ [][\A t \in Callers :
          (pc[t] \in RegPcs /\ armed'[arg[t]] # armed[arg[t]]) =>
            (arg[t] \in table /\ ~gcData[arg[t]].null)]_vars
  /\ [][\A t \in Callers :
          (pc[t] = "reg_disarm" /\ pc'[t] = "idle") =>
            /\ arg[t] \in table'
            /\ ~gcData'[arg[t]].null
            /\ gcData'[arg[t]].oops = NewOops(relocs[arg[t]], attachCode'[arg[t]])
            /\ ~armed'[arg[t]]]_vars

\* C13 happens: with entry barriers in use, every nmethod has been registered
\* and the last register call has returned.
C13_Witness ==
  /\ bsNMethod
  /\ table = NMethods
  /\ \A nm \in NMethods : ~armed[nm] /\ ~gcData[nm].null
  /\ \A t \in Callers : pc[t] = "idle"

\* What a step taken while purge runs may do: the worker that leaves "enter"
\* makes its nmethod unloaded iff it was alive and unloading; nothing else
\* changes an nmethod.
PurgeStepEffect ==
  /\ UNCHANGED <<unloading, armed, gcData, linked, depsFlushed, code, oopsTab,
                 cachesClean, table>>
  /\ \A nm \in NMethods : alive'[nm] # alive[nm] =>
       \E w \in Workers : wkPc[w] = "enter" /\ wkNm[w] = nm /\ wkPc'[w] # "enter"
  /\ \A w \in Workers : (wkPc[w] = "enter" /\ wkPc'[w] # "enter") =>
       /\ alive'[wkNm[w]] = (alive[wkNm[w]] /\ ~unloading[wkNm[w]])
       /\ \A nm \in NMethods \ {wkNm[w]} : alive'[nm] = alive[nm]
       /\ purged' = IF alive[wkNm[w]] /\ unloading[wkNm[w]]
                      THEN Append(purged, wkNm[w])
                      ELSE purged

\* C14: purge runs one task, which hands every entry of the table to the
\* closure once; a visit makes the nmethod unloaded iff it is alive and
\* unloading at that moment, and changes nothing else; unloading status,
\* guards, snapshots, slots and links are as purge found them; no nmethod is
\* made unloaded twice; and when purge returns no registered nmethod is both
\* alive and unloading.
C14_PurgeOnePassExactly ==
  /\ [](drvPc = "purged" =>
          /\ passes = 1
          /\ cursor = NumNMethods
          /\ \A nm \in table : ~(alive[nm] /\ unloading[nm]))
  /\ [](\A i, j \in 1..Len(purged) : purged[i] = purged[j] => i = j)
  /\ [][drvPc = "purged" => drvPc' = "purged"]_vars
  /\ [][(drvPc \in {"p_task", "p_run"}) => PurgeStepEffect]_vars

\* C14 happens: purge has returned having finalized one nmethod and passed
\* over another that is alive and was healed by unlink.
C14_Witness ==
  /\ drvPc = "purged"
  /\ Len(purged) >= 1
  /\ \E nm \in table : alive[nm] /\ ~unloading[nm] /\ ~armed[nm] /\ cachesClean[nm]

\* The threads inside an access to the snapshot or the link state of nm: a
\* scanner between loading the snapshot and the end of its visit, a worker
\* inside the unlink closure past the locker.
ScannersIn(nm) == {s \in Scanners : scanNm[s] = nm /\ scanPc[s] = "v_imm"}
WorkersIn(nm) ==
  {w \in Workers : wkNm[w] = nm /\ wkPc[w] \in {"body", "body_unloading"}}

C16_NoDestroyedSnapshotRead ==
  /\ \A nm \in NMethods : oopsSt[nm] = (IF gcData[nm].null THEN NoSnap ELSE Live)
  /\ \A s \in Scanners :
       /\ scanPc[s] # "freed_read"
       /\ scanPc[s] = "v_imm" => scanRef[s].st \in {Live, Pending}
       /\ (scanPc[s] = "v_imm" /\ scanRef[s].st = Live) =>
            (~gcData[scanNm[s]].null /\ gcData[scanNm[s]].oops = scanRef[s].oops)

\* C16 happens: a re-registration has swapped the snapshot of a registered
\* nmethod while a scanner was reading the old one.
C16_Witness ==
  \E s \in Scanners :
    /\ scanPc[s] = "v_imm"
    /\ scanRef[s].st = Pending
    /\ pc[Compiler] \in {"reg_insert", "reg_disarm"}
    /\ arg[Compiler] = scanNm[s]
    /\ scanNm[s] \in table
    /\ oopsSt[scanNm[s]] = Live

CompletesSteps(w) ==
  LET nm == wkNm[w] IN
    /\ (wkPc[w] = "body" /\ unloading[nm]) => depsFlushed'[nm]
    /\ wkPc[w] = "body_unloading" => ~linked'[nm]
    /\ (wkPc[w] = "body" /\ ~unloading[nm]) =>
         /\ ~armed'[nm]
         /\ \A a \in Addrs : code'[nm][a] # Stale
         /\ cachesClean'[nm] = (failures' = failures)

\* C17: within one unlink pass the failure flag starts false and only goes
\* from false to true, and it is true exactly if a cache release has failed
\* in the pass; a worker that starts on an nmethod with the flag set changes
\* nothing of any nmethod; a worker that is inside the closure when the flag
\* is set still does every step; and the pass is retried iff the flag is set.
C17_FailureFlagMonotonic ==
  /\ [][(drvPc = "u_task" /\ drvPc' = "u_run") => ~failed']_vars
  /\ [][(drvPc = "u_run" /\ drvPc' = "u_run") =>
          /\ failed => failed'
          /\ failed' = (failed \/ failures' # failures)]_vars
  /\ [][(drvPc = "u_run" /\ failed) =>
          \A w \in Workers :
            (wkPc[w] = "enter" /\ wkPc'[w] # "enter") =>
              /\ UNCHANGED <<code, oopsTab, armed, depsFlushed, linked,
                             cachesClean, alive, nmLock>>
              /\ wkPc'[w] = "claim"]_vars
  /\ [][(drvPc = "u_run" /\ failed) =>
          \A w \in Workers :
            (wkPc[w] \in {"body", "body_unloading"} /\ wkPc'[w] # wkPc[w]) =>
              CompletesSteps(w)]_vars
  /\ [][(drvPc = "u_run" /\ drvPc' # "u_run") =>
          (drvPc' = "u_leave") = failed]_vars
  /\ [](drvPc \notin {"u_task", "u_run", "u_leave", "u_refill", "u_join"} =>
          (drvPc = "idle" \/ ~failed))

\* C17 happens: the flag is set while another worker is still inside the
\* closure, and an nmethod has been skipped because of the flag.
C17_Witness ==
  /\ drvPc = "u_run"
  /\ failed
  /\ \E w \in Workers : wkPc[w] = "body" /\ ~unloading[wkNm[w]]
  /\ \E nm \in flagSkipped : alive[nm] /\ ~unloading[nm]

\* The driver is inside ZNMethod::unlink.
InUnlink == drvPc \in {"u_task", "u_run", "u_leave", "u_refill", "u_join"}

\* Nothing of nmethod nm but its dependencies and its link to the Method
\* changes in the step.
OnlyDepsAndLink(nm) ==
  /\ code'[nm] = code[nm]
  /\ oopsTab'[nm] = oopsTab[nm]
  /\ armed'[nm] = armed[nm]
  /\ cachesClean'[nm] = cachesClean[nm]
  /\ alive'[nm] = alive[nm]
  /\ unloading'[nm] = unloading[nm]
  /\ gcData'[nm] = gcData[nm]

\* C18: unlink flushes the dependencies of an alive, unloading nmethod and
\* then unlinks it from its Method, so an nmethod that is unlinked has its
\* dependencies flushed; these steps change nothing else of the nmethod and
\* leave the failure flag alone; and during unlink nothing of an nmethod
\* that is not alive changes.
C18_UnloadingFlushThenUnlink ==
  /\ [](\A nm \in NMethods : ~linked[nm] => depsFlushed[nm])
  /\ [][\A w \in Workers :
          (drvPc = "u_run" /\ wkPc[w] \in {"body", "body_unloading"}
             /\ wkPc'[w] # wkPc[w] /\ unloading[wkNm[w]]) =>
            /\ OnlyDepsAndLink(wkNm[w])
            /\ UNCHANGED <<failed, failures>>
            /\ IF wkPc[w] = "body"
                 THEN /\ wkPc'[w] = "body_unloading"
                      /\ depsFlushed'[wkNm[w]]
                      /\ UNCHANGED linked
                 ELSE /\ wkPc'[w] = "claim"
                      /\ ~linked'[wkNm[w]]
                      /\ UNCHANGED depsFlushed]_vars
  /\ [][InUnlink =>
          \A nm \in NMethods :
            /\ (alive[nm] /\ unloading[nm]) => OnlyDepsAndLink(nm)
            /\ ~alive[nm] =>
                 /\ OnlyDepsAndLink(nm)
                 /\ depsFlushed'[nm] = depsFlushed[nm]
                 /\ linked'[nm] = linked[nm]]_vars
  /\ [](drvPc = "unlinked" =>
          \A nm \in NMethods :
            (alive[nm] /\ unloading[nm]) =>
              /\ depsFlushed[nm] /\ ~linked[nm]
              /\ armed[nm] /\ ~cachesClean[nm])

\* C18 happens: unlink has returned after a worker unlinked an unloading
\* nmethod and passed over one that is not alive.
C18_Witness ==
  /\ drvPc = "unlinked"
  /\ \E nm \in NMethods : alive[nm] /\ unloading[nm] /\ unlinkedBy[nm]
  /\ \E nm \in NMethods : ~alive[nm] /\ ~unlinkedBy[nm]

\* The iteration of an unlink or purge task is open.
GCIterating == GCIter \in iterating

\* C19: the iteration of a task is open exactly while the task runs, so a
\* worker has an nmethod only inside it and it is closed when unlink or purge
\* has returned; it is begun with every worker yet to start and ended with
\* every worker done; and in the retry loop the driver leaves the suspendible
\* thread set only after a failed pass has ended its iteration, refills only
\* outside the set, and is back in the set when the next iteration begins.
C19_PassesBracketed ==
  /\ [](GCIterating <=> drvPc \in {"u_run", "p_run"})
  /\ [](\A w \in Workers :
          wkPc[w] \notin {"idle", "claim", "done"} => GCIterating)
  /\ [](drvPc \in {"unlinked", "purged"} =>
          /\ ~GCIterating
          /\ inSTS
          /\ \A w \in Workers : wkPc[w] = "idle" /\ wkNm[w] = NoNMethod)
  /\ [][(~GCIterating /\ GCIterating') =>
          /\ inSTS /\ inSTS'
          /\ \A w \in Workers : wkPc[w] = "idle" /\ wkPc'[w] = "claim"]_vars
  /\ [][(GCIterating /\ ~GCIterating') =>
          \A w \in Workers : wkPc[w] = "done"]_vars
  /\ [][(inSTS /\ ~inSTS') =>
          /\ drvPc = "u_leave" /\ failed /\ ~GCIterating
          /\ refills' = refills]_vars
  /\ [][refills' # refills =>
          \/ drvPc = "idle"
          \/ ~inSTS /\ ~inSTS' /\ ~GCIterating /\ ~GCIterating'
               /\ refills' = refills + 1]_vars
  /\ [][(~inSTS /\ inSTS') =>
          /\ refills = passes
          /\ ~GCIterating /\ ~GCIterating']_vars

\* C19 happens: purge has returned after an unlink that was retried.
C19_Witness ==
  /\ drvPc = "purged"
  /\ refills >= 1
  /\ iterating = {}
  /\ inSTS

====
